---- MODULE Spec2Model ----
(***************************************************************************)
(* Correlation engines of dynamix/correlator/dense.py.                     *)
(*                                                                         *)
(* One engine instance per behaviour: the dense reference                  *)
(* (MatMulCorrelator / py_dense_correlator), the accelerated dense engine  *)
(* (CublasMatMulCorrelator) and the two spectral engines                   *)
(* (DenseFFTwCorrelator, DenseCuFFTCorrelator).  float32 values are exact  *)
(* non-negative rationals <<n, d>>; d = 0 stands for the non-finite        *)
(* results of a division by zero (<<1, 0>> is inf, <<0, 0>> is nan).       *)
(* A frame is flattened (row-major) to pixels 1..NPix.                     *)
(***************************************************************************)
EXTENDS Integers, Sequences, FiniteSets

\* ------------------------------------------------------------- bounds
MaxT == 2          \* largest number of frames of a stack
NPix == 2          \* pixels of one frame
MaxVal == 1        \* pixel values are 0..MaxVal
MaxLabel == 2      \* mask labels are 0..MaxLabel
MaxGarbage == 1    \* contents of uninitialised memory are 0..MaxGarbage
MaxBufferValue == 8 \* a cached buffer holding a larger value is not reused
MaxC == 2          \* multipliers c of a scale factor are 1..MaxC
MaxDiagN == 2      \* matrix sizes of the stepwise diagonal reduction

\* ------------------------------------------------------ program constants
BlockDim == 32     \* self._blocks = (32, 32, 1)

VARIABLES
    kind,                  \* class of the engine instance
    nframes,               \* self.nframes
    frames,                \* the frame stack handed to correlate
    qmask,                 \* self.qmask (NoMask when none was given)
    bins,                  \* self.bins, ascending
    scale_factors,         \* self.scale_factors
    precompute_fft_plans,  \* self.precompute_fft_plans
    fft_sizes,             \* self.fft_sizes
    ffts,                  \* self.ffts, the plan cache
    d_diags,               \* self.d_diags, the (N, N) staging buffer
    d_sumdiags1,           \* self.d_sumdiags1
    d_sumdiags2,           \* self.d_sumdiags2
    results,               \* value returned by the last correlate call
    err,                   \* exception raised by the last operation
    d_arr,                 \* matrix under reduction in sum_diagonals
    d_out,                 \* output buffer handed to sum_diagonals
    pending,               \* kernel threads launched and not yet run
    kpc                    \* position inside sum_diagonals

vars == <<kind, nframes, frames, qmask, bins, scale_factors,
          precompute_fft_plans, fft_sizes, ffts, d_diags,
          d_sumdiags1, d_sumdiags2, results, err, d_arr, d_out,
          pending, kpc>>

None == << >>
NoMask == << >>

MatMul == "MatMulCorrelator"
Cublas == "CublasMatMulCorrelator"
FFTw == "DenseFFTwCorrelator"
CuFFT == "DenseCuFFTCorrelator"
DenseKinds == {MatMul, Cublas}
SpectralKinds == {FFTw, CuFFT}

\* ------------------------------------------------- float32 as rationals
RECURSIVE Gcd(_, _)
Gcd(a, b) == IF b = 0 THEN a ELSE Gcd(b, a % b)

Rat(n, d) ==
    IF d = 0 THEN (IF n = 0 THEN <<0, 0>> ELSE <<1, 0>>)
    ELSE IF n = 0 THEN <<0, 1>>
    ELSE LET g == Gcd(n, d) IN <<n \div g, d \div g>>

Zero == <<0, 1>>
One == <<1, 1>>
FromInt(n) == <<n, 1>>
RatAdd(a, b) == Rat(a[1] * b[2] + b[1] * a[2], a[2] * b[2])
RatMul(a, b) == Rat(a[1] * b[1], a[2] * b[2])
RatDiv(a, b) == Rat(a[1] * b[2], a[2] * b[1])

RECURSIVE RatSum(_)
RatSum(s) == IF s = << >> THEN Zero ELSE RatAdd(Head(s), RatSum(Tail(s)))

RECURSIVE IntSum(_)
IntSum(s) == IF s = << >> THEN 0 ELSE Head(s) + IntSum(Tail(s))

Range(s) == {s[i] : i \in DOMAIN s}
Reverse(s) == [i \in 1..Len(s) |-> s[Len(s) + 1 - i]]

\* ------------------------------------------------------ parameter model
\* BinSet: the ascending distinct positive labels of the mask.
BinSetOf(m) ==
    IF m = NoMask THEN << >>
    ELSE SelectSeq([b \in 1..MaxLabel |-> b],
                   LAMBDA b : \E p \in DOMAIN m : m[p] = b)

\* `bins = self.bins if self.bins is not None else [0]`
BinsOrImplicit(m, bs) == IF m = NoMask THEN <<0>> ELSE bs

\* Default scale factors: 1.0 for every bin.
DefaultScaleFactors(keys) == [b \in keys |-> 1]

\* (self.qmask == bin_val) as a 0/1 vector
MaskEq(m, bin_val) == [p \in 1..NPix |-> IF m[p] = bin_val THEN 1 ELSE 0]

\* frames[:, mask]: the (n_frames, n_pix) matrix of the selected pixels
TakePixels(fr, mask) ==
    LET ind == SelectSeq([p \in 1..NPix |-> p], LAMBDA p : mask[p] > 0)
    IN  [t \in 1..Len(fr) |-> [j \in 1..Len(ind) |-> fr[t][ind[j]]]]

Mean(row) == Rat(IntSum(row), Len(row))
Dot(u, v) == IntSum([j \in 1..Len(u) |-> u[j] * v[j]])

\* ------------------------------------------------------ dense reference
\* np.diag(m, k=i) of a square matrix given as a sequence of rows
NpDiag(m, i) == [j \in 1..(Len(m) - i) |-> m[j][j + i]]

DenseLagNoPixelCount(num, denom, i, lenmatr) ==
    RatDiv(RatSum(NpDiag(num, i)), RatSum(NpDiag(denom, i)))

\* res[i] = np.sum(dia_n)/np.sum(dia_d) / lenmatr
DenseLag(num, denom, i, lenmatr) ==
    RatDiv(RatDiv(RatSum(NpDiag(num, i)), RatSum(NpDiag(denom, i))),
           FromInt(lenmatr))

PyDenseCorrelator(xpcs_data, mask) ==
    LET X == TakePixels(xpcs_data, mask)
        ltimes == Len(X)
        lenmatr == Len(X[1])
        meanmatr == [t \in 1..ltimes |-> Mean(X[t])]
        num == [i \in 1..ltimes |->
                   [j \in 1..ltimes |-> FromInt(Dot(X[i], X[j]))]]
        denom == [i \in 1..ltimes |->
                   [j \in 1..ltimes |-> RatMul(meanmatr[i], meanmatr[j])]]
    IN  [k \in 1..ltimes |-> DenseLag(num, denom, k - 1, lenmatr)]

\* ------------------------------------------------- diagonal reduction
Updiv(a, b) == (a + b - 1) \div b

\* Threads of the launch: grid (updiv(N, 32), updiv(N, 32), 1) of blocks
\* (32, 32, 1); <<x, y>> is one thread.
LaunchedThreads(N) ==
    LET G == Updiv(N, BlockDim) * BlockDim
    IN  (0..(G - 1)) \X (0..(G - 1))

\* Threads that get past the bounds test of the kernel; the others
\* return without touching memory.
ActiveThreads(N) ==
    {t \in LaunchedThreads(N) : ~(t[1] >= N \/ t[2] >= N)}

MatrixCellTransposed(N, x, y) == x * N + y

\* int pos = y*N+x;
MatrixCell(N, x, y) == y * N + x

\* int my_diag = x-y;  ... diags[my_diag * N + x]
StagingCell(N, x, y) == (x - y) * N + x

\* One thread of extract_upper_diags.
KernelThread(matrix, diags, N, x, y) ==
    IF (x >= N) \/ (y >= N) \/ (y > x) THEN diags
    ELSE [diags EXCEPT ![StagingCell(N, x, y)] = matrix[MatrixCell(N, x, y)]]

RECURSIVE RunThreads(_, _, _, _)
RunThreads(matrix, diags, N, todo) ==
    IF todo = {} THEN diags
    ELSE LET t == CHOOSE u \in todo : TRUE
         IN  RunThreads(matrix, KernelThread(matrix, diags, N, t[1], t[2]),
                        N, todo \ {t})

\* self.d_diags.fill(0)
FillZero(N) == [c \in 0..(N * N - 1) |-> Zero]

\* skmisc.sum(self.d_diags, axis=1, out=d_out)
SumAxis1(diags, N) ==
    [r \in 0..(N - 1) |-> RatSum([c \in 1..N |-> diags[r * N + c - 1]])]

\* sum_diagonals as one bulk operation: the staging buffer and the output
SumDiagonals(matrix, N) ==
    LET diags == RunThreads(matrix, FillZero(N), N, ActiveThreads(N))
    IN  [diags |-> diags, out |-> SumAxis1(diags, N)]

\* ---------------------------------------------------- accelerated dense
\* cublas.dot(a, b, transb="T") of two (T, n) matrices, C-ordered (T, T)
CublasDotT(a, b) ==
    LET T == Len(a)
    IN  [c \in 0..(T * T - 1) |->
            RatSum([j \in 1..Len(a[1]) |->
                       RatMul(a[(c \div T) + 1][j], b[(c % T) + 1][j])])]

\* _correlate_matmul_cublas: the value returned and the device buffers
CorrelateMatmulCublas(frames_flat, mask) ==
    LET arr == TakePixels(frames_flat, mask)
        T == Len(arr)
        npix == Len(arr[1])
        d_arr_ == [t \in 1..T |-> [j \in 1..npix |-> FromInt(arr[t][j])]]
        d_outer == CublasDotT(d_arr_, d_arr_)
        d_means == [t \in 1..T |-> <<Mean(arr[t])>>]
        d_denom_mat == CublasDotT(d_means, d_means)
        s1 == SumDiagonals(d_outer, T)
        s2 == SumDiagonals(d_denom_mat, T)
        q == [k \in 0..(T - 1) |->
                 RatDiv(RatDiv(s1.out[k], s2.out[k]), FromInt(npix))]
    IN  [ret |-> [k \in 1..T |-> q[k - 1]],
         d_diags |-> s2.diags, d_sumdiags1 |-> q, d_sumdiags2 |-> s2.out,
         d_arr |-> d_denom_mat]

\* ------------------------------------------------------ spectral engines
\* Smallest power of two that is >= n.
RECURSIVE NextPow2From(_, _)
NextPow2From(p, n) == IF p >= n THEN p ELSE NextPow2From(2 * p, n)
Nextpow2(n) == NextPow2From(1, n)

\* n_mask_pixels of _init_fft_plans
NMaskPixels(m, bin_val) ==
    IF bin_val = 0 THEN NPix
    ELSE Cardinality({p \in 1..NPix : m[p] = bin_val})

\* fft_size = int(nextpow2(2 * self.nframes * int(n_mask_pixels)))
FftSize(T, m, bin_val) == Nextpow2(2 * T * NMaskPixels(m, bin_val))

\* pyfftw.empty_aligned(N, 'complex64'): uninitialised memory, every cell
\* holding the leftover value g.
NewFFTwPlan(N, g) == [i \in 1..N |-> g]

\* CUFFT(template=np.zeros(N, dtype=np.float32)): buffers start at zero.
NewCuFFTPlan(N) == [i \in 1..N |-> 0]

NeedsNewPlanAlways(fft) == TRUE

\* `if fft is None:`
NeedsNewPlan(fft) == fft = None

\* DenseFFTwCorrelator.get_plan: the plan returned (and cached, since
\* save_fft_plans is set by _configure_extra_options).
FFTwGetPlan(fft, N, g) ==
    IF NeedsNewPlan(fft) THEN [plan |-> NewFFTwPlan(N, g), isnew |-> TRUE]
    ELSE [plan |-> fft, isnew |-> FALSE]

\* DenseCuFFTCorrelator.get_plan: a cached plan has its buffers zeroed.
CuFFTGetPlan(fft, N) ==
    IF NeedsNewPlan(fft) THEN [plan |-> NewCuFFTPlan(N), isnew |-> TRUE]
    ELSE [plan |-> [i \in 1..Len(fft) |-> 0], isnew |-> FALSE]

\* frames.ravel() of a (T, P) matrix
Ravel(X) ==
    LET P == Len(X[1])
    IN  [i \in 1..(Len(X) * P) |-> X[((i - 1) \div P) + 1][((i - 1) % P) + 1]]

\* buf[:frames.size] = seq
WriteFront(buf, seq) ==
    [i \in 1..Len(buf) |-> IF i <= Len(seq) THEN seq[i] ELSE buf[i]]

\* ifft(fft(a) * fft(b)) of two length-N buffers: their circular
\* convolution (the transform pair of the external library).
CircularConvolve(a, b) ==
    LET N == Len(a)
    IN  [n \in 1..N |->
            IntSum([j \in 1..N |-> a[j] * b[((n - j) % N) + 1]])]

\* The inputs of the two forward transforms of _correlate_1d: the buffer
\* after `buf[:frames.size] = frames.ravel()[:]` and after
\* `buf[:frames.size] = frames.ravel()[::-1]`.
ForwardInputs(buf, X) ==
    LET flat == Ravel(X)
        in1 == WriteFront(buf, flat)
    IN  [first |-> in1, second |-> WriteFront(in1, Reverse(flat))]

ExtractNumeratorNoReverse(res, size, T) ==
    LET P == size \div T
    IN  [t \in 1..T |-> res[(t - 1) * P + P]]

\* res[:frames.size].reshape((self.nframes, -1))[:, -1][::-1]
ExtractNumerator(res, size, T) ==
    LET P == size \div T
        lastcol == [t \in 1..T |-> res[(t - 1) * P + P]]
    IN  Reverse(lastcol)

\* frames.mean(axis=1)
ComputeDenomMeans(X) == [t \in 1..Len(X) |-> Mean(X[t])]

\* np.correlate(a, v, "full"): entry j (from 0) is lag j - (len - 1)
NpCorrelateFull(a, v) ==
    LET n == Len(a)
    IN  [j \in 1..(2 * n - 1) |->
            RatSum([i \in 1..n |->
                LET u == i + (j - n)
                IN  IF u >= 1 /\ u <= n THEN RatMul(a[u], v[i]) ELSE Zero])]

\* full[sums.size-1:]
Denominator(sums) ==
    LET full == NpCorrelateFull(sums, sums)
    IN  [k \in 1..Len(sums) |-> full[Len(sums) - 1 + k]]

\* numerator/denominator/self.scale_factors[bin_val]
NormalizeCurve(numerator, denominator, table, bin_val) ==
    [k \in 1..Len(numerator) |->
        RatDiv(RatDiv(FromInt(numerator[k]), denominator[k]),
               FromInt(table[bin_val]))]

\* DenseFFTwCorrelator._correlate_1d after get_plan: the curve returned
\* and data_direct as the inverse transform leaves it.
FFTwCorrelate1d(data_direct, X, table, bin_val) ==
    LET flat == Ravel(X)
        inputs == ForwardInputs(data_direct, X)
        res == CircularConvolve(inputs.first, inputs.second)
        numerator == ExtractNumerator(res, Len(flat), Len(X))
        denominator == Denominator(ComputeDenomMeans(X))
    IN  [ret |-> NormalizeCurve(numerator, denominator, table, bin_val),
         plan |-> res]

\* DenseCuFFTCorrelator._correlate_1d after get_plan: the curve returned
\* and data_in as the inverse transform leaves it.
CuFFTCorrelate1d(data_in, X, table, bin_val) ==
    LET flat == Ravel(X)
        inputs == ForwardInputs(data_in, X)
        res == CircularConvolve(inputs.first, inputs.second)
        numerator == ExtractNumerator(res, Len(flat), Len(X))
        denominator == Denominator(ComputeDenomMeans(X))
    IN  [ret |-> NormalizeCurve(numerator, denominator, table, bin_val),
         plan |-> res]

\* get_pixels_in_bin: the exception of the checks ("none" when they pass)
PixelsCheck(m, bs, bin_val) ==
    IF bin_val > 0 /\ m = NoMask THEN "TypeError"
    ELSE IF bin_val > 0 /\ bin_val \notin Range(bs) THEN "AssertionError"
    ELSE "none"

\* get_pixels_in_bin: the (nframes, npixels) matrix returned
GetPixelsInBin(fr, m, bin_val) ==
    IF bin_val = 0 THEN TakePixels(fr, [p \in 1..NPix |-> 1])
    ELSE TakePixels(fr, MaskEq(m, bin_val))

\* DenseFFTwCorrelator.correlate: per bin, the curve and the plan left in
\* the cache; g gives the leftover memory of the plans it allocates.
FFTwCorrelateBins(fr, m, bs, table, cache, sizes, g) ==
    [b \in Range(bs) |->
        FFTwCorrelate1d(FFTwGetPlan(cache[b], sizes[b], g[b]).plan,
                        GetPixelsInBin(fr, m, b), table, b)]

\* DenseCuFFTCorrelator.correlate: per bin, the curve and the plan left in
\* the cache.
CuFFTCorrelateBins(fr, m, bs, table, cache, sizes) ==
    [b \in Range(bs) |->
        CuFFTCorrelate1d(CuFFTGetPlan(cache[b], sizes[b]).plan,
                         GetPixelsInBin(fr, m, b), table, b)]

FlushTargetsAll(bin_val, keys) == keys

\* `bins = [bin_val] if bin_val is not None else list(keys)`; the
\* argument is None or <<label>>.
FlushTargets(bin_val, keys) == IF bin_val # None THEN {bin_val[1]} ELSE keys

\* keys iterated by flush_plans()
FlushKeys(k, cache, sizes) == IF k = FFTw THEN DOMAIN cache ELSE DOMAIN sizes

\* -------------------------------------------------------- construction
Kinds == DenseKinds \cup SpectralKinds
Stacks(T) == [1..T -> [1..NPix -> 0..MaxVal]]
Masks == [1..NPix -> 0..MaxLabel]
ArgLabels == 0..MaxLabel

\* Labels that key the scale factors and the plan cache.
BinKeys(m) == Range(BinsOrImplicit(m, BinSetOf(m)))

\* _init_fft_plans: the cache after construction; g gives the leftover
\* memory of each plan created eagerly.
InitFfts(k, T, m, pre, g) ==
    [b \in BinKeys(m) |->
        IF pre
        THEN IF k = FFTw THEN FFTwGetPlan(None, FftSize(T, m, b), g[b]).plan
             ELSE CuFFTGetPlan(None, FftSize(T, m, b)).plan
        ELSE None]

\* The engine after __init__ on (shape, nframes, qmask, scale_factor,
\* precompute_fft_plans), with the frame stack fr as the input of its calls.
Construct(k, T, fr, m, sf, pre, g) ==
    /\ kind = k
    /\ nframes = T
    /\ frames = fr
    /\ qmask = m
    /\ bins = BinSetOf(m)
    /\ scale_factors = sf
    /\ precompute_fft_plans = pre
    /\ fft_sizes = IF k \in SpectralKinds
                   THEN [b \in BinKeys(m) |-> FftSize(T, m, b)] ELSE << >>
    /\ ffts = IF k \in SpectralKinds THEN InitFfts(k, T, m, pre, g) ELSE << >>
    /\ d_diags = IF k = Cublas THEN FillZero(T) ELSE << >>
    /\ d_sumdiags1 = IF k = Cublas THEN [c \in 0..(T - 1) |-> Zero] ELSE << >>
    /\ d_sumdiags2 = IF k = Cublas THEN [c \in 0..(T - 1) |-> Zero] ELSE << >>
    /\ results = None
    /\ err = "none"
    /\ d_arr = << >>
    /\ d_out = "d_sumdiags1"
    /\ pending = {}
    /\ kpc = "idle"

\* Leftover memory is a free choice only where a plan is allocated from
\* uninitialised memory.
GarbageChoices(keys, fresh) ==
    {g \in [keys -> 0..MaxGarbage] : \A b \in keys : b \notin fresh => g[b] = 0}

\* Stacks made of one frame repeated T times.
RepeatedStacks(T) == {fr \in Stacks(T) : \A t \in 1..T : fr[t] = fr[1]}

\* Engines of the classes K built on a mask with no scale factors
\* supplied, and the frame stack of their calls (one repeated frame when
\* `repeated`).
InitOn(K, repeated) ==
    \E k \in K, T \in 1..MaxT, pre \in BOOLEAN :
    \E fr \in IF repeated THEN RepeatedStacks(T) ELSE Stacks(T),
       m \in Masks \cup {NoMask} :
    \E g \in GarbageChoices(BinKeys(m),
                            IF k = FFTw /\ pre THEN BinKeys(m) ELSE {}) :
        /\ k \in DenseKinds => (~pre /\ m # NoMask)
        /\ Construct(k, T, fr, m, DefaultScaleFactors(BinKeys(m)), pre, g)

Init == InitOn(Kinds, FALSE)

\* ----------------------------------------------------------- operations
Idle == kpc = "idle"

\* Values of a reused buffer grow with every call; exploration stops at
\* buffers holding a value above MaxBufferValue.
Reusable(fft) == \A i \in DOMAIN fft : fft[i] <= MaxBufferValue

kernelVars == <<d_arr, d_out, pending, kpc>>
paramVars == <<kind, nframes, frames, qmask, bins, scale_factors,
               precompute_fft_plans, fft_sizes>>
deviceVars == <<d_diags, d_sumdiags1, d_sumdiags2>>

\* MatMulCorrelator.correlate
MatMulCorrelate ==
    /\ kind = MatMul /\ Idle
    /\ results' = [i \in 1..Len(bins) |->
                      PyDenseCorrelator(frames, MaskEq(qmask, bins[i]))]
    /\ err' = "none"
    /\ UNCHANGED <<paramVars, deviceVars, kernelVars, ffts>>

\* CublasMatMulCorrelator.correlate
CublasCorrelate ==
    /\ kind = Cublas /\ Idle
    /\ LET out == [i \in 1..Len(bins) |->
                      CorrelateMatmulCublas(frames, MaskEq(qmask, bins[i]))]
           n == Len(bins)
       IN  /\ results' = [i \in 1..n |-> out[i].ret]
           /\ d_diags' = IF n = 0 THEN d_diags ELSE out[n].d_diags
           /\ d_sumdiags1' = IF n = 0 THEN d_sumdiags1 ELSE out[n].d_sumdiags1
           /\ d_sumdiags2' = IF n = 0 THEN d_sumdiags2 ELSE out[n].d_sumdiags2
           /\ d_arr' = IF n = 0 THEN d_arr ELSE out[n].d_arr
           /\ d_out' = IF n = 0 THEN d_out ELSE "d_sumdiags2"
    /\ err' = "none"
    /\ UNCHANGED <<paramVars, pending, kpc, ffts>>

\* DenseFFTwCorrelator.correlate
FFTwCorrelate ==
    /\ kind = FFTw /\ Idle
    /\ \A b \in DOMAIN ffts : Reusable(ffts[b])
    /\ LET bs == BinsOrImplicit(qmask, bins)
           fresh == {b \in Range(bs) : NeedsNewPlan(ffts[b])}
       IN  \E g \in GarbageChoices(Range(bs), fresh) :
             LET out == FFTwCorrelateBins(frames, qmask, bs, scale_factors,
                                          ffts, fft_sizes, g)
             IN  /\ results' = [i \in 1..Len(bs) |-> out[bs[i]].ret]
                 /\ ffts' = [b \in DOMAIN ffts |->
                                IF b \in Range(bs) THEN out[b].plan
                                ELSE ffts[b]]
    /\ err' = "none"
    /\ UNCHANGED <<paramVars, deviceVars, kernelVars>>

\* DenseCuFFTCorrelator.correlate
CuFFTCorrelate ==
    /\ kind = CuFFT /\ Idle
    /\ LET bs == BinsOrImplicit(qmask, bins)
           out == CuFFTCorrelateBins(frames, qmask, bs, scale_factors,
                                     ffts, fft_sizes)
       IN  /\ results' = [i \in 1..Len(bs) |-> out[bs[i]].ret]
           /\ ffts' = [b \in DOMAIN ffts |->
                          IF b \in Range(bs) THEN out[b].plan ELSE ffts[b]]
    /\ err' = "none"
    /\ UNCHANGED <<paramVars, deviceVars, kernelVars>>

\* get_plan(bin_val) called on a spectral engine
GetPlan(bin_val) ==
    /\ kind \in SpectralKinds /\ Idle
    /\ IF bin_val \notin DOMAIN fft_sizes
       THEN /\ err' = "KeyError"
            /\ UNCHANGED ffts
       ELSE \E g \in 0..MaxGarbage :
              /\ (kind = CuFFT \/ ~NeedsNewPlan(ffts[bin_val])) => g = 0
              /\ LET r == IF kind = FFTw
                          THEN FFTwGetPlan(ffts[bin_val], fft_sizes[bin_val], g)
                          ELSE CuFFTGetPlan(ffts[bin_val], fft_sizes[bin_val])
                 IN  ffts' = [ffts EXCEPT ![bin_val] = r.plan]
              /\ err' = "none"
    /\ UNCHANGED <<paramVars, deviceVars, kernelVars, results>>

\* flush_plans(bin_val) called on a spectral engine
FlushPlans(bin_val) ==
    /\ kind \in SpectralKinds /\ Idle
    /\ LET targets == FlushTargets(bin_val, FlushKeys(kind, ffts, fft_sizes))
       IN  ffts' = [b \in DOMAIN ffts \cup targets |->
                       IF b \in targets THEN None ELSE ffts[b]]
    /\ err' = "none"
    /\ UNCHANGED <<paramVars, deviceVars, kernelVars, results>>

\* get_pixels_in_bin(frames, bin_val) called on a spectral engine
GetPixelsInBinCall(bin_val) ==
    /\ kind \in SpectralKinds /\ Idle
    /\ err' = PixelsCheck(qmask, bins, bin_val)
    /\ UNCHANGED <<paramVars, deviceVars, kernelVars, results, ffts>>

NextDense ==
    \/ MatMulCorrelate
    \/ CublasCorrelate

NextSpectral ==
    \/ FFTwCorrelate
    \/ CuFFTCorrelate
    \/ \E b \in ArgLabels : GetPlan(b)
    \/ \E a \in {None} \cup {<<b>> : b \in ArgLabels} : FlushPlans(a)
    \/ \E b \in ArgLabels : GetPixelsInBinCall(b)

Next == NextDense \/ NextSpectral

\* Every engine, every stack and mask, no scale factors supplied.
Spec == Init /\ [][Next]_vars

\* The dense engines on stacks of one repeated frame.
InitDense == InitOn(DenseKinds, TRUE)
SpecDense == InitDense /\ [][NextDense]_vars

\* The spectral engines on stacks of one repeated frame.
InitCache == InitOn(SpectralKinds, TRUE)
SpecCache == InitCache /\ [][NextSpectral]_vars

\* The spectral engines on every stack: correlations interleaved with
\* plan flushes.
InitSpectral == InitOn(SpectralKinds, FALSE)

NextCorrelate ==
    \/ FFTwCorrelate
    \/ CuFFTCorrelate
    \/ \E a \in {None} \cup {<<b>> : b \in ArgLabels} : FlushPlans(a)

SpecSpectral == InitSpectral /\ [][NextCorrelate]_vars

\* ------------------------------------- sum_diagonals, thread by thread
\* Matrices handed to sum_diagonals.
DiagMatrices(N) == [0..(N * N - 1) -> {FromInt(v) : v \in 0..MaxVal}]

\* A CublasMatMulCorrelator of N frames, whose sum_diagonals is driven
\* directly; _compile_kernels has allocated the zeroed device buffers.
InitDiag ==
    \E N \in 1..MaxDiagN :
        Construct(Cublas, N, [t \in 1..N |-> [p \in 1..NPix |-> 0]],
                  [p \in 1..NPix |-> 0], << >>, FALSE, << >>)

\* sum_diagonals(d_arr, d_out) up to the kernel launch: the staging
\* buffer is zeroed, the matrix becomes the kernel argument.
DiagLaunch(matrix, out) ==
    /\ kind = Cublas /\ kpc = "idle"
    /\ d_diags' = FillZero(nframes)
    /\ d_arr' = matrix
    /\ d_out' = out
    /\ pending' = ActiveThreads(nframes)
    /\ kpc' = "kernel"
    /\ UNCHANGED <<paramVars, ffts, d_sumdiags1, d_sumdiags2, results, err>>

\* One thread of the launch runs.
DiagThread(t) ==
    /\ kpc = "kernel" /\ t \in pending
    /\ d_diags' = KernelThread(d_arr, d_diags, nframes, t[1], t[2])
    /\ pending' = pending \ {t}
    /\ UNCHANGED <<paramVars, ffts, d_sumdiags1, d_sumdiags2, results, err,
                   d_arr, d_out, kpc>>

\* The row sums, once the kernel has completed; sum_diagonals returns.
DiagSum ==
    /\ kpc = "kernel" /\ pending = {}
    /\ d_sumdiags1' = IF d_out = "d_sumdiags1"
                      THEN SumAxis1(d_diags, nframes) ELSE d_sumdiags1
    /\ d_sumdiags2' = IF d_out = "d_sumdiags2"
                      THEN SumAxis1(d_diags, nframes) ELSE d_sumdiags2
    /\ kpc' = "idle"
    /\ UNCHANGED <<paramVars, ffts, d_diags, results, err, d_arr, d_out,
                   pending>>

NextDiag ==
    \/ \E M \in DiagMatrices(nframes), out \in {"d_sumdiags1", "d_sumdiags2"} :
           DiagLaunch(M, out)
    \/ \E t \in pending : DiagThread(t)
    \/ DiagSum

SpecDiag == InitDiag /\ [][NextDiag]_vars

\* ================================================================ claims
\* Labels the engine correlates, in row order.
Bs == BinsOrImplicit(qmask, bins)

\* Pixel mask of a label (label 0: every pixel).
BinMask(m, b) == IF b = 0 THEN [p \in 1..NPix |-> 1] ELSE MaskEq(m, b)

\* The dense reference curve of every row.
ReferenceCurves ==
    [i \in 1..Len(Bs) |-> PyDenseCorrelator(frames, BinMask(qmask, Bs[i]))]

\* A curve value that is a number (neither inf nor nan).
IsFinite(x) == x[2] # 0

\* C1: whatever engine computed it, the result of correlate holds in row
\* i, at every lag 0..T-1, the value the dense reference
\* (py_dense_correlator) gives for the i-th bin, wherever that value is a
\* number; so the dense reference, the accelerated dense path and the
\* spectral path agree.
C1_EnginesAgree ==
    \A i \in 1..Len(results) : \A k \in 1..nframes :
        IsFinite(ReferenceCurves[i][k]) =>
            results[i][k] = ReferenceCurves[i][k]

\* vector[k] = sum over i of matrix[i, i+k], for i+k < N
DiagonalSums(matrix, N) ==
    [k \in 0..(N - 1) |->
        RatSum([i \in 1..(N - k) |-> matrix[(i - 1) * N + (i - 1) + k]])]

\* The buffer the last sum_diagonals call was given for its output.
OutBuffer == IF d_out = "d_sumdiags1" THEN d_sumdiags1 ELSE d_sumdiags2

\* Threads of the launch that write a staging cell.
WritingThreads(N) == {t \in ActiveThreads(N) : ~(t[2] > t[1])}

\* C2: when sum_diagonals returns, whatever the order in which the
\* scatter threads ran, entry k of its output is the sum of matrix[i, i+k]
\* over i with i+k < N, also when the staging buffer held another
\* matrix's diagonals before the call; no two threads write the same
\* staging cell, and during and after the scatter the staging cells with
\* column < diagonal are zero.
C2_SumDiagonals ==
    /\ (kpc = "idle" /\ d_arr # << >>) =>
           OutBuffer = DiagonalSums(d_arr, nframes)
    /\ \A t1 \in WritingThreads(nframes), t2 \in WritingThreads(nframes) :
           t1 # t2 => StagingCell(nframes, t1[1], t1[2])
                          # StagingCell(nframes, t2[1], t2[2])
    /\ \A r \in 0..(nframes - 1), c \in 0..(nframes - 1) :
           c < r => d_diags[r * nframes + c] = Zero

\* Both output buffers hold the non-zero sums of two different matrices of
\* the largest size: the second call reused the staging buffer of the first.
C2_ReusedStaging ==
    /\ kpc = "idle" /\ nframes = MaxDiagN
    /\ d_sumdiags1[0] # Zero /\ d_sumdiags2[0] # Zero
    /\ d_sumdiags1[nframes - 1] # d_sumdiags2[nframes - 1]
    /\ d_sumdiags1[nframes - 1] # Zero

\* A correlate call of a spectral engine.
SpectralCorrelateStep == FFTwCorrelate \/ CuFFTCorrelate

\* The engine holds the curves of an earlier correlate call, all numbers.
HasFiniteResults ==
    /\ Len(results) > 0
    /\ \A i \in 1..Len(results) : \A k \in 1..nframes : IsFinite(results[i][k])

\* C3: a spectral engine that has computed its curves computes the same
\* curves again at its next correlate call on the same stack, whether the
\* cached plans are reused or flush_plans was called in between.
C3_SecondCorrelateSame ==
    [][(SpectralCorrelateStep /\ HasFiniteResults) => results' = results]_vars

\* The stack is one frame repeated.
RepeatedFrame == \A t \in 1..nframes : frames[t] = frames[1]

\* Values of the pixels of bin b in the repeated frame.
BinValues(b) == TakePixels(frames, BinMask(qmask, b))[1]

AllOnes == \A t \in 1..nframes : \A p \in 1..NPix : frames[t][p] = 1

\* C5: on a stack whose every pixel equals 1, the curve of every bin,
\* whatever its number P of pixels and whatever engine computed it, is 1.0
\* at every lag.
C5_AllOnesFlat ==
    AllOnes =>
        \A i \in 1..Len(results) : \A k \in DOMAIN results[i] :
            results[i][k] = One

\* Leftover memory a correlate call of this engine may meet.
CallGarbage ==
    GarbageChoices(Range(Bs),
                   IF kind = FFTw
                   THEN {b \in Range(Bs) : NeedsNewPlan(ffts[b])} ELSE {})

\* Rows a correlate call of an engine of class k returns.
EngineRows(k, fr, m, bs, table, cache, sizes, g) ==
    [i \in 1..Len(bs) |->
        IF k = MatMul THEN PyDenseCorrelator(fr, MaskEq(m, bs[i]))
        ELSE IF k = Cublas
        THEN CorrelateMatmulCublas(fr, MaskEq(m, bs[i])).ret
        ELSE IF k = FFTw
        THEN FFTwCorrelateBins(fr, m, bs, table, cache, sizes, g)[bs[i]].ret
        ELSE CuFFTCorrelateBins(fr, m, bs, table, cache, sizes)[bs[i]].ret]

\* The table with the factor of bin b multiplied by c.
ScaleBy(table, b, c) == [table EXCEPT ![b] = c * table[b]]

\* The curve with every entry multiplied by 1/c.
CurveOver(curve, c) == [k \in DOMAIN curve |-> RatDiv(curve[k], FromInt(c))]

\* C6: when a spectral engine correlates, an engine that differs from it
\* only by the scale factor of one bin b, multiplied by c > 0, returns for
\* b the same curve multiplied by 1/c and for every other bin the same
\* curve (the curves being numbers).
C6_ScaleFactorScalesCurve ==
    [][(SpectralCorrelateStep /\ HasFiniteResults') =>
        \A b \in Range(Bs), c \in 1..MaxC, g \in CallGarbage :
            LET rows == EngineRows(kind, frames, qmask, Bs,
                                   ScaleBy(scale_factors, b, c),
                                   ffts, fft_sizes, g)
            IN  \A i \in 1..Len(Bs) :
                    rows[i] = IF Bs[i] = b THEN CurveOver(results'[i], c)
                              ELSE results'[i]]_vars

\* Consistent relabelings of the positive labels.
Relabelings ==
    {pi \in [1..MaxLabel -> 1..MaxLabel] :
        \A a \in 1..MaxLabel, b \in 1..MaxLabel : a # b => pi[a] # pi[b]}

RelabelKey(b, pi) == IF b = 0 THEN 0 ELSE pi[b]

Relabel(m, pi) ==
    IF m = NoMask THEN NoMask ELSE [p \in 1..NPix |-> RelabelKey(m[p], pi)]

\* A per-bin table (scale factors, padded lengths, cached plans) keyed by
\* the new labels.
RelabelTable(table, keys, pi) ==
    [n \in {RelabelKey(b, pi) : b \in keys} |->
        LET b == CHOOSE b \in keys : RelabelKey(b, pi) = n IN table[b]]

IndexOf(b, bs) == CHOOSE i \in 1..Len(bs) : bs[i] = b

\* A correlate call of any engine.
CorrelateStep == MatMulCorrelate \/ CublasCorrelate \/ SpectralCorrelateStep

\* C7: when an engine built on a mask correlates (to curves that are
\* numbers), row i of its result is the curve of the i-th label of the
\* ascending BinSet, and an engine built alike on a consistently
\* relabelled mask returns, in the row of each new label, the curve the
\* old label has here.
C7_RelabelingPermutesRows ==
    [][(CorrelateStep /\ qmask # NoMask /\ HasFiniteResults') =>
        \A pi \in Relabelings, g \in CallGarbage :
            LET keys == Range(Bs)
                m2 == Relabel(qmask, pi)
                bs2 == BinsOrImplicit(m2, BinSetOf(m2))
                g2 == RelabelTable(g, keys, pi)
                rows == IF kind \in DenseKinds
                        THEN EngineRows(kind, frames, m2, bs2,
                                        << >>, << >>, << >>, << >>)
                        ELSE EngineRows(kind, frames, m2, bs2,
                                 RelabelTable(scale_factors, keys, pi),
                                 RelabelTable(ffts, keys, pi),
                                 RelabelTable(fft_sizes, keys, pi), g2)
            IN  /\ Len(results') = Len(Bs)
                /\ \A i \in 1..Len(Bs) :
                       rows[IndexOf(RelabelKey(Bs[i], pi), bs2)]
                           = results'[i]]_vars

\* An operation given the label b.
OperationOn(b) == GetPlan(b) \/ FlushPlans(<<b>>) \/ GetPixelsInBinCall(b)

\* C8: an operation of a spectral engine given a label outside BinSet ends
\* in an error and leaves the plan cache, keys and entries, as it was.
C8_UnknownBinFails ==
    [][\A b \in ArgLabels :
          (b \notin BinKeys(qmask) /\ OperationOn(b)) =>
              (err' # "none" /\ ffts' = ffts)]_vars

\* Plans a bin's entry may hold after one use of a newly created plan.
FirstUsePlans(b) ==
    IF kind = FFTw
    THEN {FFTwCorrelate1d(NewFFTwPlan(fft_sizes[b], g),
                          GetPixelsInBin(frames, qmask, b),
                          scale_factors, b).plan : g \in 0..MaxGarbage}
    ELSE {CuFFTCorrelate1d(NewCuFFTPlan(fft_sizes[b]),
                           GetPixelsInBin(frames, qmask, b),
                           scale_factors, b).plan}

\* C9: in a spectral engine the padded lengths never change and every
\* cached plan has the padded length fixed for its bin at construction;
\* an entry that holds no plan gets one only by a use of its bin (get_plan
\* or correlate), and before any call only when precomputation was
\* requested; an entry that holds a plan keeps that very plan until its
\* bin is flushed: get_plan returns it (DenseCuFFTCorrelator with its
\* buffers zeroed) and correlate computes in its buffers.
C9_PlanLifecycle ==
    /\ [](\A b \in DOMAIN ffts :
            /\ b \notin DOMAIN fft_sizes => ffts[b] = None
            /\ b \in DOMAIN fft_sizes =>
                 /\ fft_sizes[b] = FftSize(nframes, qmask, b)
                 /\ ffts[b] = None \/ Len(ffts[b]) = fft_sizes[b])
    /\ [][/\ fft_sizes' = fft_sizes
          /\ LET correlates == SpectralCorrelateStep
             IN  \A b \in DOMAIN fft_sizes :
                   /\ (ffts[b] = None /\ ffts'[b] # None) =>
                          (GetPlan(b) \/ correlates)
                   /\ (ffts[b] # None /\ ffts'[b] # ffts[b]) =>
                          \/ FlushPlans(<<b>>) \/ FlushPlans(None)
                          \/ /\ kind = CuFFT /\ GetPlan(b)
                             /\ ffts'[b] = [i \in 1..fft_sizes[b] |-> 0]
                          \/ /\ correlates
                             /\ ffts'[b]
                                  = IF kind = FFTw
                                    THEN FFTwCorrelate1d(ffts[b],
                                             GetPixelsInBin(frames, qmask, b),
                                             scale_factors, b).plan
                                    ELSE CuFFTCorrelate1d(
                                             [i \in 1..fft_sizes[b] |-> 0],
                                             GetPixelsInBin(frames, qmask, b),
                                             scale_factors, b).plan
                   /\ (kind = FFTw /\ ffts[b] # None /\ GetPlan(b)) =>
                          ffts'[b] = ffts[b]]_vars
    /\ (~precompute_fft_plans => \A b \in DOMAIN ffts : ffts[b] = None)

\* A DenseFFTwCorrelator built without precomputation holds for a bin a
\* plan that no single use of a new plan leaves behind: the plan created at
\* the first use was used again.
C9_PlanUsedAgain ==
    /\ kind = FFTw /\ ~precompute_fft_plans
    /\ \E b \in DOMAIN fft_sizes :
         /\ ffts[b] # None
         /\ ffts[b] \notin FirstUsePlans(b)
         /\ \A g \in 0..MaxGarbage : ffts[b] # NewFFTwPlan(fft_sizes[b], g)

\* C10: flush_plans(b) for a bin b of BinSet (label 0 when there is no
\* mask) empties the entry of b and changes no other entry, flush_plans()
\* empties the entry of every bin, and both leave the cache keys and the
\* padded lengths as they were.
C10_FlushFrame ==
    [][/\ \A b \in BinKeys(qmask) :
            FlushPlans(<<b>>) =>
                /\ ffts'[b] = None
                /\ \A c \in DOMAIN ffts \ {b} : ffts'[c] = ffts[c]
                /\ DOMAIN ffts' = DOMAIN ffts
                /\ fft_sizes' = fft_sizes
       /\ FlushPlans(None) =>
                /\ \A b \in BinKeys(qmask) : ffts'[b] = None
                /\ DOMAIN ffts' = DOMAIN ffts
                /\ fft_sizes' = fft_sizes]_vars

\* An engine built with precomputed plans has lost the plan of one bin and
\* kept the plan of another.
C10_OneBinFlushed ==
    /\ precompute_fft_plans
    /\ \E b \in BinKeys(qmask), c \in BinKeys(qmask) :
         b # c /\ ffts[b] = None /\ ffts[c] # None

\* The buffer get_plan hands to _correlate_1d for bin b; g gives the
\* leftover memory of a plan it allocates.
PlanBuffer(b, g) ==
    IF kind = FFTw THEN FFTwGetPlan(ffts[b], fft_sizes[b], g[b]).plan
    ELSE CuFFTGetPlan(ffts[b], fft_sizes[b]).plan

\* Every entry of buf from position size (counted from 0) on is zero.
ZeroFrom(buf, size) == \A i \in (size + 1)..Len(buf) : buf[i] = 0

\* Sum over all t with t+k < T and all pixels p of X[t,p] * X[t+k,p].
LagProductSum(X, k) ==
    IntSum([t \in 1..(Len(X) - k) |-> Dot(X[t], X[t + k])])

\* Sum over all t with t+k < T of m[t] * m[t+k].
LagMeanSum(X, k) ==
    RatSum([t \in 1..(Len(X) - k) |-> RatMul(Mean(X[t]), Mean(X[t + k]))])

\* The outer product of the per-frame means of the dense algorithm.
MeansOuter(X) ==
    [i \in 1..Len(X) |-> [j \in 1..Len(X) |-> RatMul(Mean(X[i]), Mean(X[j]))]]

\* C11: when _correlate_1d of a spectral engine runs for a bin on a buffer
\* of length N >= 2*T*P whose padding is zero, the numerator extracted
\* from the inverse transform left in the plan's buffer has at every lag k
\* of 0..T-1 the sum over t with t+k < T and over the pixels p of
\* X[t,p] * X[t+k,p]; the denominator has at lag k the sum over the same t
\* of m[t] * m[t+k], which is the k-th upper-diagonal sum of the outer
\* product of the means; and the curve stored is their quotient over the
\* scale factor.
C11_NumeratorIsLagSum ==
    [][SpectralCorrelateStep =>
        \A g \in CallGarbage : \A i \in 1..Len(Bs) :
            LET b == Bs[i]
                X == GetPixelsInBin(frames, qmask, b)
                size == Len(X) * Len(X[1])
                buf == PlanBuffer(b, g)
                out == IF kind = FFTw
                       THEN FFTwCorrelate1d(buf, X, scale_factors, b)
                       ELSE CuFFTCorrelate1d(buf, X, scale_factors, b)
                denominator == Denominator(ComputeDenomMeans(X))
            IN  (/\ out.plan = ffts'[b] /\ out.ret = results'[i]
                 /\ ZeroFrom(buf, size)) =>
                    /\ Len(buf) >= 2 * size
                    /\ \A k \in 0..(nframes - 1) :
                         /\ ExtractNumerator(ffts'[b], size, nframes)[k + 1]
                                = LagProductSum(X, k)
                         /\ denominator[k + 1] = LagMeanSum(X, k)
                         /\ denominator[k + 1]
                                = RatSum(NpDiag(MeansOuter(X), k))
                         /\ results'[i][k + 1]
                                = RatDiv(RatDiv(FromInt(LagProductSum(X, k)),
                                                LagMeanSum(X, k)),
                                         FromInt(scale_factors[b]))]_vars

\* A DenseCuFFTCorrelator has correlated a stack of the largest length
\* whose frames differ, over a bin of all the pixels: the buffer of the
\* plan holds an inverse transform with a non-zero numerator at lag 1.
C11_LagOneComputed ==
    /\ kind = CuFFT /\ nframes = MaxT /\ nframes >= 2
    /\ frames[1] # frames[2]
    /\ Len(results) > 0
    /\ \E b \in DOMAIN fft_sizes :
         /\ NMaskPixels(qmask, b) = NPix
         /\ ffts[b] # None
         /\ ExtractNumerator(ffts[b], nframes * NPix, nframes)[2] > 0

\* seq followed by zeros up to length N.
ZeroPadded(seq, N) == [i \in 1..N |-> IF i <= Len(seq) THEN seq[i] ELSE 0]

\* C12: at each of the two forward transforms of every _correlate_1d call
\* of a spectral engine, on a newly created plan and on a cached plan
\* alike, the input buffer holds the flattened pixels (plain, then
\* reversed) in its first T*P entries and zero from T*P to N-1.
C12_InputsZeroPadded ==
    [][SpectralCorrelateStep =>
        \A g \in CallGarbage : \A i \in 1..Len(Bs) :
            LET b == Bs[i]
                X == GetPixelsInBin(frames, qmask, b)
                buf == PlanBuffer(b, g)
                out == IF kind = FFTw
                       THEN FFTwCorrelate1d(buf, X, scale_factors, b)
                       ELSE CuFFTCorrelate1d(buf, X, scale_factors, b)
                inputs == ForwardInputs(buf, X)
            IN  (out.plan = ffts'[b] /\ out.ret = results'[i]) =>
                    /\ inputs.first = ZeroPadded(Ravel(X), fft_sizes[b])
                    /\ inputs.second
                           = ZeroPadded(Reverse(Ravel(X)), fft_sizes[b])]_vars

====
